---- MODULE Spec2Model ----
(***************************************************************************)
(* AutoRecruit-SA (src/app.py): the recruiter-table loader, the mail       *)
(* dispatcher, the "Start sending" loop and the outreach log, as a state   *)
(* machine over one Streamlit session and the log file on disk.            *)
(*                                                                         *)
(* Text is modelled as a sequence of one-character strings, so that        *)
(* lower(), strip(), substring tests and the header line-break check are   *)
(* computed and not assumed.  A missing cell (pandas NaN) is the value NaN. *)
(***************************************************************************)
EXTENDS Integers, Sequences, FiniteSets, TLC

(* ------------------------------------------------------------------ *)
(* Text helpers (Python str methods used by app.py)                    *)
(* ------------------------------------------------------------------ *)

UpperLetters == <<"A","B","C","D","E","F","G","H","I","J","K","L","M",
                  "N","O","P","Q","R","S","T","U","V","W","X","Y","Z">>

LowerLetters == <<"a","b","c","d","e","f","g","h","i","j","k","l","m",
                  "n","o","p","q","r","s","t","u","v","w","x","y","z">>

\* str.lower() on one character
LowerChar(c) ==
    IF \E i \in 1..26 : UpperLetters[i] = c
    THEN LowerLetters[CHOOSE i \in 1..26 : UpperLetters[i] = c]
    ELSE c

\* str.lower()
Lower(s) == [i \in 1..Len(s) |-> LowerChar(s[i])]

\* Python's `sub in s`
Contains(sub, s) ==
    \E i \in 0..(Len(s) - Len(sub)) : SubSeq(s, i + 1, i + Len(sub)) = sub

Whitespace == {" ", "\t", "\n", "\r"}

LineBreaks == {"\n", "\r"}

RECURSIVE LStrip(_)
LStrip(s) == IF s # <<>> /\ Head(s) \in Whitespace THEN LStrip(Tail(s)) ELSE s

RECURSIVE RStrip(_)
RStrip(s) ==
    IF s # <<>> /\ s[Len(s)] \in Whitespace
    THEN RStrip(SubSeq(s, 1, Len(s) - 1))
    ELSE s

\* str.strip()
Strip(s) == RStrip(LStrip(s))

\* s[:n]
Take(s, n) == SubSeq(s, 1, IF Len(s) < n THEN Len(s) ELSE n)

\* pandas' missing value (float NaN); not a text
NaN == <<"<NaN>">>

\* the Python value None
None == <<"<None>">>

\* str(v) / astype(str) of a cell
AsStr(v) == IF v = NaN THEN <<"n","a","n">> ELSE v

\* position of the first occurrence of x in the sequence s (0 when absent)
IndexOf(s, x) ==
    IF \E i \in 1..Len(s) : s[i] = x
    THEN CHOOSE i \in 1..Len(s) : s[i] = x /\ \A j \in 1..(i - 1) : s[j] # x
    ELSE 0

\* the subsequence of s at the positions satisfying keep, in order
RECURSIVE SelectIdx(_, _, _)
SelectIdx(s, keep, i) ==
    IF i > Len(s) THEN <<>>
    ELSE (IF keep[i] THEN <<s[i]>> ELSE <<>>) \o SelectIdx(s, keep, i + 1)

(* ------------------------------------------------------------------ *)
(* Texts that occur in the modelled runs                               *)
(* ------------------------------------------------------------------ *)

T_Empty == <<>>
T_Blank == <<" ">>
T_Company == <<"C","o","m","p","a","n","y">>
T_Agency == <<"A","g","e","n","c","y">>
T_mail == <<"m","a","i","l">>
T_Email == <<"E","m","a","i","l">>
T_EMAIL_ADDR == <<"E","-","M","A","I","L">>
T_WorkEmail == <<"W","o","r","k"," ","e","m","a","i","l">>
T_Location == <<"L","o","c","a","t","i","o","n">>
T_AgencyName == <<"A","g","e","n","c","y","N","a","m","e">>
T_City == <<"C","i","t","y">>
T_Website == <<"W","e","b","s","i","t","e">>
T_Notes == <<"N","o","t","e","s">>
T_Acme == <<"A","c","m","e">>
T_Beta == <<"B","e","t","a">>
T_a_x == <<"a","@","x",".","c","o","m">>
T_b_y == <<"b","@","y",".","c","o","m">>
\* a quoted CSV cell holding two lines
T_two_lines == <<"c","@","z","\n","d","@","z">>

(* ------------------------------------------------------------------ *)
(* DataFrames: column names, index labels, one cell sequence per row   *)
(* ------------------------------------------------------------------ *)

DataFrame(cols, idx, data) == [columns |-> cols, index |-> idx, data |-> data]

NRows(df) == Len(df.data)

\* df[name] of the row at position r (duplicate column names do not occur
\* in the modelled inputs)
Cell(df, r, name) == df.data[r][IndexOf(df.columns, name)]

\* row.get(name, default)
RowGet(df, r, name, default) ==
    IF IndexOf(df.columns, name) = 0 THEN default ELSE Cell(df, r, name)

\* df[mask]: the rows at the positions where mask holds, labels kept
FilterRows(df, mask) ==
    DataFrame(df.columns, SelectIdx(df.index, mask, 1), SelectIdx(df.data, mask, 1))

\* df.reset_index(drop=True)
ResetIndex(df) == DataFrame(df.columns, [i \in 1..NRows(df) |-> i - 1], df.data)

\* df.head(n)
HeadRows(df, n) ==
    DataFrame(df.columns, Take(df.index, n), Take(df.data, n))

(* ------------------------------------------------------------------ *)
(* load_recruiters                                                     *)
(* ------------------------------------------------------------------ *)

expected_cols == <<T_AgencyName, T_Email, T_City, T_Website, T_Notes>>

\* col_map[col] after the four ifs of the loop body (a later if overrides
\* an earlier one); the column's own name when no if matches
ColMapMail(col) ==
    LET l == Lower(col) IN
    IF Contains(<<"w","e","b">>, l) THEN T_Website
    ELSE IF l \in {<<"c","i","t","y">>, Lower(T_Location)} THEN T_City
    ELSE IF Contains(T_mail, l) THEN T_Email
    ELSE IF l \in {Lower(T_Agency), Lower(T_AgencyName),
                   <<"r","e","c","r","u","i","t","e","r">>, Lower(T_Company)}
         THEN T_AgencyName
    ELSE col

ColMap(col) ==
    LET l == Lower(col) IN
    IF Contains(<<"w","e","b">>, l) THEN T_Website
    ELSE IF l \in {<<"c","i","t","y">>, Lower(T_Location)} THEN T_City
    ELSE IF Contains(Lower(T_Email), l) THEN T_Email
    ELSE IF l \in {Lower(T_Agency), Lower(T_AgencyName),
                   <<"r","e","c","r","u","i","t","e","r">>, Lower(T_Company)}
         THEN T_AgencyName
    ELSE col

\* df.rename(columns=col_map)
Rename(df) ==
    DataFrame([i \in 1..Len(df.columns) |-> ColMap(df.columns[i])], df.index, df.data)

\* for c in expected_cols: if c not in df.columns: df[c] = ""
RECURSIVE EnsureCols(_, _)
EnsureCols(df, i) ==
    IF i > Len(expected_cols) THEN df
    ELSE IF IndexOf(df.columns, expected_cols[i]) # 0 THEN EnsureCols(df, i + 1)
    ELSE EnsureCols(
            DataFrame(Append(df.columns, expected_cols[i]), df.index,
                      [r \in 1..NRows(df) |-> Append(df.data[r], T_Empty)]),
            i + 1)

\* df["Email"].notna() & (df["Email"].astype(str).str.strip() != "")
HasEmail(df, r) ==
    /\ Cell(df, r, T_Email) # NaN
    /\ Strip(AsStr(Cell(df, r, T_Email))) # T_Empty

\* the frame load_recruiters returns for a file that parsed to df
load_recruiters(df) ==
    LET e == EnsureCols(Rename(df), 1) IN
    ResetIndex(FilterRows(e, [r \in 1..NRows(e) |-> HasEmail(e, r)]))

(* ------------------------------------------------------------------ *)
(* Templates: str.format with the three named fields                   *)
(* ------------------------------------------------------------------ *)

\* a replacement field of a template; every other element is a character
PH_AgencyName == "{AgencyName}"
PH_City == "{City}"
PH_Website == "{Website}"

\* st.session_state.message_template, first words of the default text
message_template == <<"D","e","a","r"," ",PH_AgencyName>>

\* the subject template widget at its default value, first words
subject_template == <<"A","p","p",":"," ",PH_AgencyName>>

\* template.format(AgencyName=a, City=c, Website=w)
RECURSIVE Format(_, _, _, _)
Format(t, a, c, w) ==
    IF t = <<>> THEN <<>>
    ELSE (CASE Head(t) = PH_AgencyName -> AsStr(a)
            [] Head(t) = PH_City -> AsStr(c)
            [] Head(t) = PH_Website -> AsStr(w)
            [] OTHER -> <<Head(t)>>) \o Format(Tail(t), a, c, w)

(* ------------------------------------------------------------------ *)
(* send_email_smtp                                                     *)
(* ------------------------------------------------------------------ *)

\* len(value.splitlines()): "\r\n" is one line boundary, a final line
\* boundary opens no further line
RECURSIVE NumLines(_)
NumLines(s) ==
    IF s = <<>> THEN 0
    ELSE IF \A i \in 1..Len(s) : s[i] \notin LineBreaks THEN 1
    ELSE LET i == CHOOSE k \in 1..Len(s) :
                      s[k] \in LineBreaks /\ \A j \in 1..(k - 1) : s[j] \notin LineBreaks
             n == IF s[i] = "\r" /\ i < Len(s) /\ s[i + 1] = "\n" THEN i + 1 ELSE i
         IN  1 + NumLines(SubSeq(s, n + 1, Len(s)))

\* msg[name] = value raises ValueError ("Header values may not contain
\* linefeed or carriage return characters") when the value has two lines
HeaderRaises(value) == NumLines(value) > 1

\* the steps inside the try block, in order; "none" when all succeed
SmtpSteps == <<"connect", "starttls", "login", "send_message", "quit">>

SmtpFaults == {SmtpSteps[i] : i \in 1..Len(SmtpSteps)} \cup {"none"}

\* str(e) of the exception a failing step raises
ErrorTexts == {<<"r","e","f","u","s","e","d">>}

\* the result of one call: raised (an exception leaves the function), or
\* the returned pair (success, error).  fault is the step at which the relay
\* fails and err the text of its exception.  Building the TLS context and
\* attaching the bytes are taken to succeed.
send_email_smtp(user, use_tls, to_email, subject, fault, err) ==
    IF HeaderRaises(user) \/ HeaderRaises(to_email) \/ HeaderRaises(subject)
    THEN [raised |-> TRUE, success |-> FALSE, error |-> None]
    ELSE IF fault = "none" \/ (fault = "starttls" /\ ~use_tls)
    THEN [raised |-> FALSE, success |-> TRUE, error |-> None]
    ELSE [raised |-> FALSE, success |-> FALSE, error |-> err]

(* ------------------------------------------------------------------ *)
(* The log file: DataFrame.to_csv(index=False) and pd.read_csv         *)
(* ------------------------------------------------------------------ *)

LogColumns == <<<<"T","i","m","e","s","t","a","m","p">>, T_Agency, T_Email,
                <<"S","t","a","t","u","s">>, <<"E","r","r","o","r">>,
                <<"M","e","s","s","a","g","e","P","r","e","v","i","e","w">>>>

T_SENT == <<"S","E","N","T">>
T_FAILED == <<"F","A","I","L","E","D">>

\* the texts read_csv takes for a missing value (its default na_values)
NaValues == { <<>>, <<"#","N","/","A">>, <<"#","N","/","A"," ","N","/","A">>,
              <<"#","N","A">>, <<"-","1",".","#","I","N","D">>,
              <<"-","1",".","#","Q","N","A","N">>, <<"-","N","a","N">>,
              <<"-","n","a","n">>, <<"1",".","#","I","N","D">>,
              <<"1",".","#","Q","N","A","N">>, <<"<","N","A",">">>,
              <<"N","/","A">>, <<"N","A">>, <<"N","U","L","L">>,
              <<"N","a","N">>, <<"N","o","n","e">>, <<"n","/","a">>,
              <<"n","a","n">>, <<"n","u","l","l">> }

\* one cell as to_csv writes it: a missing value is written as nothing
ToCsvField(v) == IF v = NaN \/ v = None THEN <<>> ELSE v

\* one field as read_csv returns it (the modelled texts are not numerals,
\* so no column is converted to numbers)
ReadCsvField(f) == IF f \in NaValues THEN NaN ELSE f

\* the file contents to_csv produces: header line and one line per row
to_csv(df) ==
    [header |-> df.columns,
     lines |-> [r \in 1..NRows(df) |->
                  [c \in 1..Len(df.data[r]) |-> ToCsvField(df.data[r][c])]]]

\* the frame read_csv parses from file contents
read_csv(text) ==
    DataFrame(text.header,
              [r \in 1..Len(text.lines) |-> r - 1],
              [r \in 1..Len(text.lines) |->
                  [c \in 1..Len(text.lines[r]) |-> ReadCsvField(text.lines[r][c])]])

\* the log file is absent, or holds no bytes (a write that failed after the
\* file was opened), or holds a table
NoFile == [exists |-> FALSE, empty |-> FALSE, text |-> [header |-> <<>>, lines |-> <<>>]]

EmptyFile == [exists |-> TRUE, empty |-> TRUE, text |-> [header |-> <<>>, lines |-> <<>>]]

FileWith(text) == [exists |-> TRUE, empty |-> FALSE, text |-> text]

EmptyLog == DataFrame(LogColumns, <<>>, <<>>)

\* the initialisation of st.session_state.log_df from the log file
LoadLog(file) ==
    IF file.exists
    THEN IF file.empty THEN EmptyLog ELSE read_csv(file.text)
    ELSE EmptyLog

\* pd.concat([log_df, pd.DataFrame([row])], ignore_index=True)
ConcatRow(df, row) ==
    DataFrame(df.columns, [i \in 1..(NRows(df) + 1) |-> i - 1], Append(df.data, row))

(* ------------------------------------------------------------------ *)
(* Bounds and input sets                                               *)
(* ------------------------------------------------------------------ *)

\* rows per uploaded table
MaxRows == 2

\* batch sizes tried (the widget allows 1..500)
MaxBatch == 2

\* log entries kept in the modelled runs
MaxLog == 2

\* largest magnitude of the delay inputs (the widgets allow any number)
MaxDelay == 1

\* [:1000] of the message preview
PreviewLen == 1000

\* st.progress accepts 0..100
ProgressMax == 100

\* sequences over S of length lo..hi
SeqsOf(S, lo, hi) == UNION {[1..n -> S] : n \in lo..hi}

\* the parsed upload: columns, then rows of cells
Table(cols, rows) == DataFrame(cols, [i \in 1..Len(rows) |-> i - 1], rows)

\* uploads tried by the sending runs: Company and Email columns
SendRowKinds == {<<T_Acme, T_a_x>>, <<T_Beta, T_two_lines>>}

SendTables == {Table(<<T_Company, T_Email>>, rows) : rows \in SeqsOf(SendRowKinds, 1, MaxRows)}

\* uploads tried by the loader runs: Company and a second column under
\* several headings
LoaderCols == {<<T_Company, e>> : e \in {T_mail, T_Email, T_EMAIL_ADDR, T_WorkEmail}}

LoaderRowKinds == {<<T_Acme, T_a_x>>, <<T_Beta, T_Empty>>, <<T_Beta, T_Blank>>,
                   <<T_Acme, NaN>>}

LoaderTables == {Table(cols, rows) : cols \in LoaderCols,
                                     rows \in SeqsOf(LoaderRowKinds, 0, MaxRows)}

Users == {T_Empty, T_Blank, <<"m","e">>}
Passwords == {T_Empty, <<"p","w">>}
Searches == {T_Empty, <<"a","c","m","e">>}
DelayInputs == {0 - MaxDelay, MaxDelay}
Timestamps == {<<"t","1">>}
WriteOutcomes == {"written", "untouched", "truncated"}

(* ------------------------------------------------------------------ *)
(* State                                                               *)
(* ------------------------------------------------------------------ *)

VARIABLES
    recruiters_df,   \* st.session_state.recruiters_df (Absent for None)
    cv_bytes,        \* st.session_state.cv_bytes (None: no CV is uploaded in
                     \* these runs, the mails go out without attachment)
    log_df,          \* st.session_state.log_df
    log_file,        \* logs/application_log.csv
    uploaded,        \* the parsed table of the latest upload (Absent before)
    smtp_user, batch_size, delay_min, delay_max,
                     \* the widget values the current run reads in its loop
    pc,              \* "idle" (no script running), "loop" (inside the for
                     \* loop), "done" (the run reached its end), "aborted"
                     \* (an exception ended the run)
    total,           \* len(recruiters), the rows left by the search box
    batch,           \* recruiters.head(batch_size) of the run
    pos,             \* rows of batch the loop has finished
    sent_count, failed_count,
    dispatched,      \* index labels for which send_email_smtp was called
    progress,        \* values passed to progress.progress, in order
    delays,          \* values of `delay`, in order
    messages,        \* st.error / st.warning / st.success shown by the latest action
    log_at_start     \* len(log_df) when the run began

vars == <<recruiters_df, cv_bytes, log_df, log_file, uploaded, smtp_user,
          batch_size, delay_min, delay_max, pc, total, batch,
          pos, sent_count, failed_count, dispatched, progress, delays,
          messages, log_at_start>>

session == <<recruiters_df, cv_bytes, log_df>>
widgets == <<smtp_user, batch_size, delay_min, delay_max>>
run == <<pc, total, batch, pos, sent_count, failed_count, dispatched, progress, delays,
         log_at_start>>

EmptyFrame == DataFrame(<<>>, <<>>, <<>>)

\* a session value that is None, or holds the frame df
Absent == <<>>
Some(df) == <<df>>

\* the widgets' initial values
DefaultBatchSize == 20
DefaultDelayMin == 5
DefaultDelayMax == 12

\* no run is in progress: the script's locals do not exist and the widgets
\* are read afresh by the next run
NoRun(p, tot, b, ps, sc, fc, dsp, prg, dl, las, u, n, dmin, dmax) ==
    /\ p = "idle"
    /\ tot = 0
    /\ b = EmptyFrame
    /\ ps = 0 /\ sc = 0 /\ fc = 0
    /\ dsp = <<>> /\ prg = <<>> /\ dl = <<>>
    /\ las = 0
    /\ u = T_Empty
    /\ n = DefaultBatchSize /\ dmin = DefaultDelayMin /\ dmax = DefaultDelayMax

\* outside a sending run the loop's locals do not exist
Rerun ==
    NoRun(pc', total', batch', pos', sent_count', failed_count', dispatched', progress',
          delays', log_at_start', smtp_user', batch_size', delay_min', delay_max')

Init ==
    /\ recruiters_df = Absent
    /\ cv_bytes = None
    /\ log_file = NoFile
    /\ log_df = LoadLog(NoFile)
    /\ uploaded = Absent
    /\ NoRun(pc, total, batch, pos, sent_count, failed_count, dispatched, progress,
             delays, log_at_start, smtp_user, batch_size, delay_min, delay_max)
    /\ messages = {}

(* ------------------------------------------------------------------ *)
(* Upload & Template page                                              *)
(* ------------------------------------------------------------------ *)

\* a file is uploaded and parses to the table t
Upload(t) ==
    /\ pc = "idle"
    /\ uploaded' = Some(t)
    /\ recruiters_df' = Some(load_recruiters(t))
    /\ messages' = {"success: loaded"}
    /\ Rerun
    /\ UNCHANGED <<cv_bytes, log_df, log_file>>

\* a file is uploaded that read_csv / read_excel cannot read
UploadUnreadable ==
    /\ pc = "idle"
    /\ messages' = {"error: reading file"}
    /\ Rerun
    /\ UNCHANGED <<session, log_file, uploaded>>

(* ------------------------------------------------------------------ *)
(* Send Applications page                                              *)
(* ------------------------------------------------------------------ *)

\* Series.str.contains(search, case=False, na=False) on one cell
CellContains(cell, srch) == cell # NaN /\ Contains(Lower(srch), Lower(cell))

\* the rows kept by the search box
SearchFilter(df, srch) ==
    IF srch = T_Empty THEN df
    ELSE FilterRows(df, [r \in 1..NRows(df) |->
            \/ CellContains(Cell(df, r, T_AgencyName), srch)
            \/ CellContains(Cell(df, r, T_City), srch)
            \/ CellContains(Cell(df, r, T_Email), srch)])

Max2(a, b) == IF a >= b THEN a ELSE b
Min2(a, b) == IF a <= b THEN a ELSE b

\* the whole seconds random.uniform(a, b) can return: a + (b - a) * random()
\* lies between a and b whichever is the larger
Uniform(a, b) == Min2(a, b)..Max2(a, b)

\* random.uniform(max(0, delay_min), max(delay_min, delay_max))
DelaySamples(dmin, dmax) == Uniform(Max2(0, dmin), Max2(dmin, dmax))

\* int(((idx + 1) / batch_size) * 100); the double-precision quotient
\* truncates to the exact floor for the sizes of the modelled runs
Progress(idx, n) == (100 * (idx + 1)) \div n

\* "Start sending" is pressed with these widget values
StartSend(user, password, n, dmin, dmax, srch) ==
    /\ pc = "idle"
    /\ recruiters_df # Absent
    /\ LET recruiters == SearchFilter(recruiters_df[1], srch)
           head == HeadRows(recruiters, n)
       IN  /\ NRows(log_df) + NRows(head) <= MaxLog
           /\ total' = NRows(recruiters)
           /\ batch' = head
    /\ smtp_user' = user
    /\ batch_size' = n /\ delay_min' = dmin /\ delay_max' = dmax
    /\ messages' =
          IF Strip(user) = T_Empty \/ Strip(password) = T_Empty
          THEN {"error: credentials"}
          ELSE IF cv_bytes = None THEN {"warning: no cv"} ELSE {}
    /\ sent_count' = 0 /\ failed_count' = 0
    /\ pos' = 0
    /\ dispatched' = <<>> /\ progress' = <<>> /\ delays' = <<>>
    /\ log_at_start' = NRows(log_df)
    /\ pc' = "loop"
    /\ UNCHANGED <<session, log_file, uploaded>>

\* the frame without its last row
DropLast(df) ==
    DataFrame(df.columns, SubSeq(df.index, 1, NRows(df) - 1),
              SubSeq(df.data, 1, NRows(df) - 1))

\* a save that writes the log as it was before the new row was added
WriteLogStale(file, df, outcome) ==
    CASE outcome = "written" -> FileWith(to_csv(DropLast(df)))
      [] outcome = "untouched" -> file
      [] outcome = "truncated" -> EmptyFile

\* what to_csv leaves on disk: the whole table, or the old file when the
\* file could not be opened, or no bytes when the write failed after opening
WriteLog(file, df, outcome) ==
    CASE outcome = "written" -> FileWith(to_csv(df))
      [] outcome = "untouched" -> file
      [] outcome = "truncated" -> EmptyFile

\* the frame save_log_row leaves in st.session_state.log_df
save_log_row(log, ts, agency, email, status, error, preview) ==
    ConcatRow(log, <<ts, agency, email, status, error, preview>>)

\* the body text the loop renders for the row at position r of the batch
PreviewMsg(r) ==
    Format(message_template, RowGet(batch, r, T_AgencyName, T_Empty),
           RowGet(batch, r, T_City, T_Empty), RowGet(batch, r, T_Website, T_Empty))

\* the call of send_email_smtp the loop makes for the row at position r
\* (the provider is Gmail: TLS on)
DispatchResult(r, fault, err) ==
    send_email_smtp(smtp_user, TRUE, RowGet(batch, r, T_Email, None),
                    Format(subject_template, RowGet(batch, r, T_AgencyName, T_Empty),
                           RowGet(batch, r, T_City, T_Empty),
                           RowGet(batch, r, T_Website, T_Empty)),
                    fault, err)

\* one iteration of the for loop: dispatch, log, count, progress, sleep.
\* fault and err are the relay's behaviour, ts the clock reading, w the
\* outcome of the file write.
SendRow(fault, err, ts, w) ==
    /\ pc = "loop"
    /\ pos < NRows(batch)
    /\ LET r == pos + 1
           idx == batch.index[r]
           agency == RowGet(batch, r, T_AgencyName, T_Empty)
           email == RowGet(batch, r, T_Email, None)
           preview_msg == PreviewMsg(r)
           res == DispatchResult(r, fault, err)
           p == Progress(idx, batch_size)
       IN  /\ dispatched' = Append(dispatched, idx)
           /\ IF res.raised
              THEN /\ pc' = "aborted"
                   /\ UNCHANGED <<log_df, log_file, sent_count, failed_count,
                                  progress, delays, pos, messages>>
              ELSE /\ log_df' =
                        IF res.success
                        THEN save_log_row(log_df, ts, agency, email, T_SENT, T_Empty,
                                          Take(preview_msg, PreviewLen))
                        ELSE save_log_row(log_df, ts, agency, email, T_FAILED, res.error,
                                          Take(preview_msg, PreviewLen))
                   /\ log_file' = WriteLog(log_file, log_df', w)
                   /\ messages' = (messages \ {"warning: log not saved"}) \cup
                                  (IF w = "written" THEN {} ELSE {"warning: log not saved"})
                   /\ sent_count' = IF res.success THEN sent_count + 1 ELSE sent_count
                   /\ failed_count' = IF res.success THEN failed_count ELSE failed_count + 1
                   /\ progress' = Append(progress, p)
                   /\ IF p < 0 \/ p > ProgressMax
                      THEN /\ pc' = "aborted"
                           /\ UNCHANGED <<delays, pos>>
                      ELSE \E d \in DelaySamples(delay_min, delay_max) :
                              /\ delays' = Append(delays, d)
                              /\ IF d < 0
                                 THEN pc' = "aborted" /\ pos' = pos
                                 ELSE pc' = "loop" /\ pos' = pos + 1
    /\ UNCHANGED <<recruiters_df, cv_bytes, uploaded, widgets, total, batch,
                   log_at_start>>

\* the loop has no row left: "Finished sending run"
FinishRun ==
    /\ pc = "loop"
    /\ pos = NRows(batch)
    /\ pc' = "done"
    /\ messages' = messages \cup {"success: finished"}
    /\ UNCHANGED <<session, log_file, uploaded, widgets, total, batch, pos, sent_count,
                   failed_count, dispatched, progress, delays, log_at_start>>

\* the script run of "Start sending" is over (it reached its end, or an
\* exception ended it); what it displayed stays on the page
EndScript ==
    /\ pc \in {"done", "aborted"}
    /\ Rerun
    /\ UNCHANGED <<session, log_file, uploaded, messages>>

(* ------------------------------------------------------------------ *)
(* Logs & Export page, session start                                   *)
(* ------------------------------------------------------------------ *)

\* "Clear logs" is pressed; removed tells whether os.remove succeeded
ClearLogs(removed) ==
    /\ pc = "idle"
    /\ NRows(log_df) > 0
    /\ log_file' = IF log_file.exists /\ removed THEN NoFile ELSE log_file
    /\ log_df' = DataFrame(log_df.columns, <<>>, <<>>)
    /\ messages' = {"success: logs cleared"}
    /\ Rerun
    /\ UNCHANGED <<recruiters_df, cv_bytes, uploaded>>

\* a new session begins: session state is initialised again, the log is
\* read from the file
NewSession ==
    /\ pc = "idle"
    /\ recruiters_df' = Absent
    /\ cv_bytes' = None
    /\ uploaded' = Absent
    /\ log_df' = LoadLog(log_file)
    /\ messages' = {}
    /\ Rerun
    /\ UNCHANGED log_file

Next ==
    \/ \E t \in SendTables : Upload(t)
    \/ UploadUnreadable
    \/ \E user \in Users, password \in Passwords, n \in 1..MaxBatch,
          dmin \in DelayInputs, dmax \in DelayInputs, srch \in Searches :
          StartSend(user, password, n, dmin, dmax, srch)
    \/ \E fault \in SmtpFaults, err \in ErrorTexts, ts \in Timestamps,
          w \in WriteOutcomes :
          SendRow(fault, err, ts, w)
    \/ FinishRun
    \/ EndScript
    \/ \E removed \in BOOLEAN : ClearLogs(removed)
    \/ NewSession

Spec == Init /\ [][Next]_vars

\* the loader alone, over a wider set of uploads
NextLoader ==
    \/ \E t \in LoaderTables : Upload(t)
    \/ UploadUnreadable

SpecLoader == Init /\ [][NextLoader]_vars

\* the log alone: sending runs over a table of well-formed rows with the
\* credentials entered and the default (empty) search
LogRows == [i \in 1..MaxRows |-> IF i % 2 = 1 THEN <<T_Acme, T_a_x>> ELSE <<T_Beta, T_b_y>>]

LogTable == Table(<<T_Company, T_Email>>, LogRows)

NextLog ==
    \/ Upload(LogTable)
    \/ \E n \in 1..MaxBatch :
          StartSend(<<"m","e">>, <<"p","w">>, n, 0, MaxDelay, T_Empty)
    \/ \E fault \in SmtpFaults, err \in ErrorTexts, ts \in Timestamps,
          w \in WriteOutcomes :
          SendRow(fault, err, ts, w)
    \/ FinishRun
    \/ EndScript
    \/ \E removed \in BOOLEAN : ClearLogs(removed)
    \/ NewSession

SpecLog == Init /\ [][NextLog]_vars

(* ------------------------------------------------------------------ *)
(* Properties                                                          *)
(* ------------------------------------------------------------------ *)

RunOver == pc \in {"done", "aborted"}

InRun == pc # "idle"

\* the entries the current run has added to the in-memory log
NewEntries == SubSeq(log_df.data, log_at_start + 1, NRows(log_df))

\* C1: when a sending run is over, every row of the batch (the first
\* batch_size rows left by the search box) has been attempted, whatever
\* happened to the rows before it: send_email_smtp was called for it and a
\* log entry was recorded for it.
C1_EveryBatchRowAttempted ==
    RunOver =>
        /\ Len(dispatched) = NRows(batch)
        /\ Len(NewEntries) = NRows(batch)
        /\ \A r \in 1..NRows(batch) :
              /\ dispatched[r] = batch.index[r]
              /\ NewEntries[r][3] = RowGet(batch, r, T_Email, None)

\* C2: send_email_smtp never raises: for the row the loop is about to send
\* and every behaviour of the relay, the call returns (True, None) or
\* (False, error text).
C2_DispatchNeverRaises ==
    (pc = "loop" /\ pos < NRows(batch)) =>
        \A fault \in SmtpFaults, err \in ErrorTexts :
            LET res == DispatchResult(pos + 1, fault, err) IN
            /\ ~res.raised
            /\ \/ res.success /\ res.error = None
               \/ ~res.success /\ res.error = err

\* C3: at every point of a sending run sent_count + failed_count is the
\* number of rows attempted so far, each attempted row has exactly one log
\* entry (SENT with empty Error, or FAILED with the error text), and the log
\* has grown by sent_count + failed_count entries.
C3_CountsMatchAttempts ==
    InRun =>
        /\ sent_count + failed_count = Len(dispatched)
        /\ Len(NewEntries) = Len(dispatched)
        /\ Len(NewEntries) = sent_count + failed_count
        /\ \A i \in 1..Len(NewEntries) :
              \/ NewEntries[i][4] = T_SENT /\ NewEntries[i][5] = T_Empty
              \/ NewEntries[i][4] = T_FAILED /\ NewEntries[i][5] \in ErrorTexts

\* C4: a sending run with batch size N attempts exactly min(N, rows left
\* by the search box) dispatches, one for each of the first N rows, in order.
C4_ExactlyMinDispatches ==
    RunOver =>
        /\ Len(dispatched) = Min2(batch_size, total)
        /\ dispatched = batch.index

\* C7: when "Start sending" is pressed with a blank SMTP user or password,
\* the error is reported and the run dispatches nothing and logs nothing.
C7_ConfigErrorBlocksRun ==
    (InRun /\ "error: credentials" \in messages) =>
        /\ dispatched = <<>>
        /\ NRows(log_df) = log_at_start

\* C9: every sampled delay lies in [0, max(delay_min, delay_max)]; in
\* particular none is negative.
C9_DelayInRange ==
    \A i \in 1..Len(delays) :
        0 <= delays[i] /\ delays[i] <= Max2(delay_min, delay_max)

\* C10: after the k-th row of a run the reported progress is
\* floor(100 * k / N), N the batch size, with or without a search filter.
C10_ProgressIsRowsOverN ==
    \A k \in 1..Len(progress) : progress[k] = (100 * k) \div batch_size

\* C6: after "Clear logs" the in-memory log has no rows and a load at the
\* next session start yields the empty log with the six columns.
C6_ClearThenLoadEmpty ==
    messages = {"success: logs cleared"} =>
        /\ log_df = EmptyLog
        /\ LoadLog(log_file) = EmptyLog

\* a cell as it comes back from the file: empty text and the NA markers are
\* read as a missing value, any other text is itself
AsReadBack(v) == IF v = NaN \/ v = None \/ v \in NaValues THEN NaN ELSE v

\* loaded holds the entries of mem, in order, each field as read back
SameEntriesReadBack(mem, loaded) ==
    /\ loaded.columns = mem.columns
    /\ NRows(loaded) = NRows(mem)
    /\ \A r \in 1..NRows(mem) :
          /\ Len(loaded.data[r]) = Len(mem.data[r])
          /\ \A c \in 1..Len(mem.data[r]) :
                loaded.data[r][c] = AsReadBack(mem.data[r][c])

LogWarning == "warning: log not saved"

\* C5 (as stated): after every append the persisted log equals the
\* in-memory log: a load at the next session start yields the previous
\* entries followed by the appended ones.
C5_PersistedEqualsMemory ==
    (InRun /\ NRows(log_df) > log_at_start) => LoadLog(log_file) = log_df

\* C5 (amended): an append leaves the previous in-memory entries in place
\* and adds the new entry after them; unless the write failed (a warning is
\* shown), a load at the next session start then yields all the entries in
\* the same order, each field as read_csv reads it back (an empty text, such
\* as the Error of a SENT entry, comes back as a missing value).
C5_AppendDurableWhenWritten ==
    [][(pc = "loop" /\ NRows(log_df') = NRows(log_df) + 1) =>
          /\ SubSeq(log_df'.data, 1, NRows(log_df)) = log_df.data
          /\ log_df'.columns = log_df.columns
          /\ (LogWarning \notin messages' =>
                SameEntriesReadBack(log_df', LoadLog(log_file')))]_vars

\* C5 witness: a new session has loaded two entries that an earlier run
\* appended one after the other, a SENT one first and a FAILED one second.
C5_LoadedTwoAppended ==
    /\ pc = "idle"
    /\ recruiters_df = Absent
    /\ log_df = LoadLog(log_file)
    /\ NRows(log_df) = 2
    /\ log_df.data[1][4] = T_SENT /\ log_df.data[1][5] = NaN
    /\ log_df.data[2][4] = T_FAILED /\ log_df.data[2][5] \in ErrorTexts

\* the scenario's upload: columns Company and mail, rows (Acme, a@x.com)
\* and (Beta, empty)
ScenarioTable ==
    Table(<<T_Company, T_mail>>, <<<<T_Acme, T_a_x>>, <<T_Beta, T_Empty>>>>)

KeptRows(t) ==
    SelectSeq(t.data, LAMBDA row : row[2] # NaN /\ Strip(row[2]) # T_Empty)

====
